---- MODULE Spec2Model ----
(***************************************************************************)
(* Productivity-Tracker-App: the task entity, its transition functions     *)
(* (utilities/taskHelpers.ts), the task store (utilities/storage.ts) and   *)
(* the HomeScreen / TaskCard / TaskModal handlers that drive them, and the *)
(* calendar events provider (utilities/EventContext.tsx).                  *)
(*                                                                         *)
(* Time is a tick counter `now`; a calendar day is TicksPerDay ticks, so   *)
(* two timestamps of the same day can differ.  Date#toDateString() and     *)
(* the getDate/getMonth/getFullYear triple are both DayOf.  A handler      *)
(* reads the clock once.                                                   *)
(* The `description` field is carried untouched by every function (object  *)
(* spread) and is left out of the task record.                             *)
(*                                                                         *)
(* Specifications:                                                         *)
(*   Spec      the app: AsyncStorage keys, HomeScreen state and handlers,  *)
(*             one handler at a time, no persistence failure; the clock    *)
(*             is observed once per day (NextDay), and the edit form       *)
(*             leaves the type selector at the task's type;                *)
(*   SpecTask  one task value driven by the exported transition functions  *)
(*             of taskHelpers.ts and by the per-task step of the reset     *)
(*             pass, with the clock moving tick by tick;                   *)
(*   SpecStore the store functions called one at a time by HomeScreen,     *)
(*             with AsyncStorage calls that can reject and a stored text   *)
(*             that can be damaged;                                        *)
(*   SpecList  saveTask and deleteTask on lists of up to MaxItems tasks;   *)
(*   SpecLoads two loadTasks calls stepped from await to await;            *)
(*   SpecCrash SpecLoads with the app killed while a call is in flight;    *)
(*   SpecMut   two HomeScreen mutations stepped from await to await;       *)
(*   SpecPass  the reset pass over stored collections of up to MaxItems    *)
(*             tasks;                                                      *)
(*   SpecEdit  one task created and edited through the TaskModal form,     *)
(*             the type selector and both number fields free;              *)
(*   SpecEvents the calendar events provider (utilities/EventContext.tsx)  *)
(*             with AsyncStorage calls that can reject.                    *)
(***************************************************************************)
EXTENDS Integers, Sequences, FiniteSets, TLC

VARIABLES now, tasksKey, lastResetKey, tasks, nextId, last, task, prev, lastOp,
          prevOp, garbled, calls, hist, state, eventsKey, eventCall

vars == <<now, tasksKey, lastResetKey, tasks, nextId, last, task, prev, lastOp,
          prevOp, garbled, calls, hist, state, eventsKey, eventCall>>
appVars == <<tasksKey, lastResetKey, tasks, nextId, last>>
taskVars == <<task, prev, lastOp, prevOp>>
ioVars == <<garbled, calls, hist>>
eventVars == <<state, eventsKey, eventCall>>

(* ------------------------------ bounds --------------------------------- *)
MaxDay == 2
MaxTasks == 1
MaxStreak == 3
MaxItems == 3
MutItems == 2
MaxEvents == 2
TicksPerDay == 2
MaxNow == (MaxDay + 1) * TicksPerDay - 1

(* --------------------------- value domains ----------------------------- *)
Undefined == 0 - 1000
Types == {"unit", "daily", "clean"}
Titles == {"a"}
TargetInputs == {Undefined, 0 - 2, 0, 2}
ProgressInputs == {0 - 1, 0, 1, 3}
FormTargets == {0, 2}
FormProgress == {0, 1, 3}
OptionalFields == {"targetValue", "currentValue", "lastCompletedDate", "relapsedDate"}
TaskFields == {"id", "title", "type", "targetValue", "currentValue", "completed",
               "streak", "lastCompletedDate", "createdAt", "updatedAt", "relapsedDate"}

DayOf(t) == t \div TicksPerDay
Today == DayOf(now)

(* JavaScript `a || b` on an optional number: undefined and 0 are falsy *)
OrElse(v, d) == IF v = Undefined \/ v = 0 THEN d ELSE v
Max(a, b) == IF a >= b THEN a ELSE b
Min(a, b) == IF a <= b THEN a ELSE b

(* ------------------------- taskHelpers.ts ------------------------------ *)
createTask(id, title, type, targetValue, t) ==
    [id |-> id, title |-> title, type |-> type,
     targetValue |-> IF type = "unit" THEN OrElse(targetValue, 1) ELSE Undefined,
     currentValue |-> IF type = "unit" THEN 0 ELSE Undefined,
     completed |-> FALSE, streak |-> 0, lastCompletedDate |-> Undefined,
     createdAt |-> t, updatedAt |-> t, relapsedDate |-> Undefined]

isTaskCompleted(tk) ==
    IF tk.type = "unit"
    THEN OrElse(tk.currentValue, 0) >= OrElse(tk.targetValue, 1)
    ELSE tk.completed

shouldResetTask(tk, t) ==
    IF tk.lastCompletedDate = Undefined THEN FALSE
    ELSE DayOf(tk.lastCompletedDate) # DayOf(t)

(* resetTaskForNewDay with the streak of a missed day kept *)
resetTaskForNewDay_keepsStreakOnMiss(tk, t) ==
    IF tk.type = "clean"
    THEN IF tk.relapsedDate = DayOf(t)
         THEN [tk EXCEPT !.completed = FALSE, !.streak = 0, !.updatedAt = t]
         ELSE IF tk.updatedAt # Undefined /\ DayOf(tk.updatedAt) # DayOf(t)
              THEN [tk EXCEPT !.completed = FALSE, !.streak = tk.streak + 1,
                              !.updatedAt = t]
              ELSE tk
    ELSE LET wasCompletedYesterday == tk.completed \/ isTaskCompleted(tk)
         IN  [tk EXCEPT !.completed = FALSE,
                        !.currentValue = IF tk.type = "unit" THEN 0 ELSE Undefined,
                        !.streak = IF wasCompletedYesterday THEN tk.streak + 1
                                   ELSE tk.streak,
                        !.updatedAt = t]

(* resetTaskForNewDay with the clean day not counted *)
resetTaskForNewDay_cleanDayNotCounted(tk, t) ==
    IF tk.type = "clean"
    THEN IF tk.relapsedDate = DayOf(t)
         THEN [tk EXCEPT !.completed = FALSE, !.streak = 0, !.updatedAt = t]
         ELSE IF tk.updatedAt # Undefined /\ DayOf(tk.updatedAt) # DayOf(t)
              THEN [tk EXCEPT !.completed = FALSE, !.updatedAt = t]
              ELSE tk
    ELSE LET wasCompletedYesterday == tk.completed \/ isTaskCompleted(tk)
         IN  [tk EXCEPT !.completed = FALSE,
                        !.currentValue = IF tk.type = "unit" THEN 0 ELSE Undefined,
                        !.streak = IF wasCompletedYesterday THEN tk.streak + 1 ELSE 0,
                        !.updatedAt = t]

(* resetTaskForNewDay judging a unit task by its completed flag alone *)
resetTaskForNewDay_flagOnly(tk, t) ==
    IF tk.type = "clean"
    THEN IF tk.relapsedDate = DayOf(t)
         THEN [tk EXCEPT !.completed = FALSE, !.streak = 0, !.updatedAt = t]
         ELSE IF tk.updatedAt # Undefined /\ DayOf(tk.updatedAt) # DayOf(t)
              THEN [tk EXCEPT !.completed = FALSE, !.streak = tk.streak + 1,
                              !.updatedAt = t]
              ELSE tk
    ELSE LET wasCompletedYesterday == tk.completed
         IN  [tk EXCEPT !.completed = FALSE,
                        !.currentValue = IF tk.type = "unit" THEN 0 ELSE Undefined,
                        !.streak = IF wasCompletedYesterday THEN tk.streak + 1 ELSE 0,
                        !.updatedAt = t]

(* resetTaskForNewDay taking one off the streak for a missed day *)
resetTaskForNewDay_decrementsOnMiss(tk, t) ==
    IF tk.type = "clean"
    THEN IF tk.relapsedDate = DayOf(t)
         THEN [tk EXCEPT !.completed = FALSE, !.streak = 0, !.updatedAt = t]
         ELSE IF tk.updatedAt # Undefined /\ DayOf(tk.updatedAt) # DayOf(t)
              THEN [tk EXCEPT !.completed = FALSE, !.streak = tk.streak + 1,
                              !.updatedAt = t]
              ELSE tk
    ELSE LET wasCompletedYesterday == tk.completed \/ isTaskCompleted(tk)
         IN  [tk EXCEPT !.completed = FALSE,
                        !.currentValue = IF tk.type = "unit" THEN 0 ELSE Undefined,
                        !.streak = IF wasCompletedYesterday THEN tk.streak + 1
                                   ELSE tk.streak - 1,
                        !.updatedAt = t]

resetTaskForNewDay(tk, t) ==
    IF tk.type = "clean"
    THEN IF tk.relapsedDate = DayOf(t)
         THEN [tk EXCEPT !.completed = FALSE, !.streak = 0, !.updatedAt = t]
         ELSE IF tk.updatedAt # Undefined /\ DayOf(tk.updatedAt) # DayOf(t)
              THEN [tk EXCEPT !.completed = FALSE, !.streak = tk.streak + 1,
                              !.updatedAt = t]
              ELSE tk
    ELSE LET wasCompletedYesterday == tk.completed \/ isTaskCompleted(tk)
         IN  [tk EXCEPT !.completed = FALSE,
                        !.currentValue = IF tk.type = "unit" THEN 0 ELSE Undefined,
                        !.streak = IF wasCompletedYesterday THEN tk.streak + 1 ELSE 0,
                        !.updatedAt = t]

(* completeTask counting the completion into the streak at once *)
completeTask_bumpsStreak(tk, t) ==
    IF tk.type = "unit"
    THEN [tk EXCEPT !.currentValue = OrElse(tk.targetValue, 1), !.completed = TRUE,
                    !.lastCompletedDate = t, !.updatedAt = t]
    ELSE [tk EXCEPT !.completed = TRUE, !.streak = tk.streak + 1,
                    !.lastCompletedDate = t, !.updatedAt = t]

completeTask(tk, t) ==
    IF tk.type = "unit"
    THEN [tk EXCEPT !.currentValue = OrElse(tk.targetValue, 1), !.completed = TRUE,
                    !.lastCompletedDate = t, !.updatedAt = t]
    ELSE [tk EXCEPT !.completed = TRUE, !.lastCompletedDate = t, !.updatedAt = t]

(* relapseCleanTask without the check of the task's type *)
relapseCleanTask_anyType(tk, t) ==
    [tk EXCEPT !.completed = TRUE, !.streak = 0, !.relapsedDate = DayOf(t),
               !.updatedAt = t]

relapseCleanTask(tk, t) ==
    IF tk.type # "clean" THEN tk
    ELSE [tk EXCEPT !.completed = TRUE, !.streak = 0, !.relapsedDate = DayOf(t),
                    !.updatedAt = t]

updateTaskProgress(tk, newValue, t) ==
    IF tk.type # "unit" THEN tk
    ELSE LET currentValue == Max(0, Min(newValue, OrElse(tk.targetValue, 1)))
             completed == currentValue >= OrElse(tk.targetValue, 1)
         IN  [tk EXCEPT !.currentValue = currentValue, !.completed = completed,
                        !.lastCompletedDate =
                            IF completed THEN t ELSE tk.lastCompletedDate,
                        !.updatedAt = t]

(* --------------------------- storage.ts -------------------------------- *)
(* JSON.stringify drops the keys whose value is undefined; a key missing   *)
(* from the parsed object reads as undefined.                              *)
JSON_stringify(ts) ==
    [i \in DOMAIN ts |->
        [f \in {g \in TaskFields : g \in OptionalFields => ts[i][g] # Undefined}
            |-> ts[i][f]]]

JSON_parse(js) ==
    [i \in DOMAIN js |->
        [f \in TaskFields |-> IF f \in DOMAIN js[i] THEN js[i][f] ELSE Undefined]]

(* AsyncStorage.setItem(TASKS_KEY, JSON.stringify(tasks)): the key's value *)
saveTasks(ts) == <<JSON_stringify(ts)>>

(* the map of checkAndResetTasks handing the tasks back last first *)
resetPass_reversed(ts, t) ==
    [i \in DOMAIN ts |->
        LET tk == ts[Len(ts) + 1 - i]
        IN  IF shouldResetTask(tk, t) THEN resetTaskForNewDay(tk, t) ELSE tk]

(* the map of checkAndResetTasks *)
resetPass(ts, t) ==
    [i \in DOMAIN ts |->
        IF shouldResetTask(ts[i], t) THEN resetTaskForNewDay(ts[i], t) ELSE ts[i]]

(* checkAndResetTasks running the pass whatever the marker says *)
checkAndResetTasks_ignoresMarker(ts, tkey, marker, t) ==
    LET resetTasks == resetPass(ts, t)
    IN  [ret |-> resetTasks, marker |-> <<DayOf(t)>>,
         tkey |-> IF Len(resetTasks) > 0 THEN saveTasks(resetTasks) ELSE tkey]

(* checkAndResetTasks: what it returns (ret) and what it leaves under the  *)
(* two keys; an absent key is <<>>, a present one <<value>>.               *)
checkAndResetTasks(ts, tkey, marker, t) ==
    IF marker # <<DayOf(t)>>
    THEN LET resetTasks == resetPass(ts, t)
         IN  [ret |-> resetTasks, marker |-> <<DayOf(t)>>,
              tkey |-> IF Len(resetTasks) > 0 THEN saveTasks(resetTasks) ELSE tkey]
    ELSE [ret |-> ts, marker |-> marker, tkey |-> tkey]

loadTasks(tkey, marker, t) ==
    IF tkey = <<>> THEN [ret |-> <<>>, marker |-> marker, tkey |-> tkey]
    ELSE checkAndResetTasks(JSON_parse(tkey[1]), tkey, marker, t)

findIndex(ts, id) ==
    IF \E i \in DOMAIN ts : ts[i].id = id
    THEN CHOOSE i \in DOMAIN ts :
            ts[i].id = id /\ \A j \in DOMAIN ts : ts[j].id = id => i <= j
    ELSE 0

(* saveTask moving an updated task to the end of the list *)
saveTask_movesToEnd(tk, existingTasks) ==
    Append(SelectSeq(existingTasks, LAMBDA x : x.id # tk.id), tk)

saveTask(tk, existingTasks) ==
    LET taskIndex == findIndex(existingTasks, tk.id)
    IN  IF taskIndex >= 1
        THEN [existingTasks EXCEPT ![taskIndex] = tk]
        ELSE Append(existingTasks, tk)

(* deleteTask dropping the task and all that follow it *)
deleteTask_dropsRest(taskId, existingTasks) ==
    LET taskIndex == findIndex(existingTasks, taskId)
    IN  IF taskIndex >= 1 THEN SubSeq(existingTasks, 1, taskIndex - 1)
        ELSE existingTasks

deleteTask(taskId, existingTasks) ==
    SelectSeq(existingTasks, LAMBDA x : x.id # taskId)

(* ---------------------- TaskModal.handleSave --------------------------- *)
(* targetText: what parseInt(targetValue) yields, Undefined for NaN;       *)
(* progress: parseInt(currentValue) || 0 (or minutesLogged);               *)
(* completed: the "Mark as Complete / Mark as Relapsed" checkbox.          *)
handleSaveEdit(tk, title, type, targetText, progress, completed, t) ==
    LET savedTask ==
            [tk EXCEPT !.title = title, !.type = type,
                       !.targetValue =
                           IF type = "unit" THEN OrElse(targetText, 1) ELSE Undefined,
                       !.updatedAt = t,
                       !.completed = IF type = "unit" THEN tk.completed ELSE completed]
    IN  IF type = "unit" THEN updateTaskProgress(savedTask, progress, t)
        ELSE savedTask

handleSaveNew(id, title, type, targetText, progress, completed, t) ==
    LET savedTask ==
            createTask(id, title, type,
                       IF type = "unit" THEN OrElse(targetText, 1) ELSE Undefined, t)
    IN  IF type = "unit" THEN updateTaskProgress(savedTask, progress, t)
        ELSE [savedTask EXCEPT !.completed = completed]

(* What the form can hold when Save is pressed.  The target and progress   *)
(* inputs are read for unit tasks only (and a unit task needs a non-empty  *)
(* target text); the checkbox is read for daily and clean tasks only, and  *)
(* it is shown (so it can be set) only when an existing task is edited.    *)
Forms ==
    [title : Titles, type : {"unit"}, targetText : FormTargets,
     progress : FormProgress, completed : {FALSE}]
    \cup
    [title : Titles, type : {"daily", "clean"}, targetText : {Undefined},
     progress : {0}, completed : BOOLEAN]

(* ============================ Spec: the app ============================ *)
NoTask == createTask(0, "a", "daily", Undefined, 0)
NoOp == [op |-> "none", at |-> 0, arg |-> 0]

TaskFrozen == task = NoTask /\ prev = NoTask /\ lastOp = NoOp /\ prevOp = NoOp

(* no stored text damaged, no store call in flight, nothing remembered *)
NoHist == [op |-> "none"]
IOFrozen == garbled = FALSE /\ calls = <<>> /\ hist = NoHist

(* EventContext: the reducer's initial state; no event stored, no provider *)
(* mounted                                                                 *)
initialState == [events |-> <<>>, loading |-> FALSE, error |-> "null"]
EventFrozen == state = initialState /\ eventsKey = <<>> /\ eventCall = "idle"

AppInit ==
    /\ tasksKey = <<>>
    /\ lastResetKey = <<>>
    /\ tasks = <<>>
    /\ nextId = 1
    /\ last = [op |-> "init", stale |-> FALSE]

Init == now = 0 /\ AppInit /\ TaskFrozen /\ IOFrozen /\ EventFrozen

(* the collection persisted under TASKS_KEY, as loadTasks would parse it *)
stored == IF tasksKey = <<>> THEN <<>> ELSE JSON_parse(tasksKey[1])

(* midnight passes *)
NextDay ==
    /\ Today < MaxDay
    /\ now' = now + TicksPerDay
    /\ UNCHANGED <<appVars, taskVars, eventVars, ioVars>>

(* HomeScreen.loadTasksData (mount, pull-to-refresh) -> loadTasks *)
LoadTasksData ==
    LET r == loadTasks(tasksKey, lastResetKey, now)
    IN  /\ tasksKey' = r.tkey
        /\ lastResetKey' = r.marker
        /\ tasks' = r.ret
        /\ last' = [op |-> "load",
                    stale |-> tasksKey # <<>> /\ lastResetKey # <<Today>>]
        /\ UNCHANGED <<now, nextId, taskVars, eventVars, ioVars>>

(* TaskCard.handleSwipeRight -> HomeScreen.handleTaskComplete *)
HandleTaskComplete ==
    \E i \in DOMAIN tasks :
        /\ ~isTaskCompleted(tasks[i])
        /\ LET updatedTasks == saveTask(completeTask(tasks[i], now), tasks)
           IN  /\ tasksKey' = saveTasks(updatedTasks)
               /\ tasks' = updatedTasks
        /\ last' = [op |-> "complete", stale |-> FALSE]
        /\ UNCHANGED <<now, lastResetKey, nextId, taskVars, eventVars, ioVars>>

(* TaskModal.handleSave (no task selected) -> HomeScreen.handleTaskSave *)
HandleTaskSaveNew ==
    \E f \in Forms :
        /\ nextId <= MaxTasks
        /\ ~f.completed
        /\ LET savedTask == handleSaveNew(nextId, f.title, f.type, f.targetText,
                                          f.progress, f.completed, now)
               updatedTasks == saveTask(savedTask, tasks)
           IN  /\ tasksKey' = saveTasks(updatedTasks)
               /\ tasks' = updatedTasks
        /\ nextId' = nextId + 1
        /\ last' = [op |-> "add", stale |-> FALSE]
        /\ UNCHANGED <<now, lastResetKey, taskVars, eventVars, ioVars>>

(* TaskModal.handleSave (task selected) -> HomeScreen.handleTaskSave *)
HandleTaskSaveEdit ==
    \E i \in DOMAIN tasks :
        \E f \in {g \in Forms : g.type = tasks[i].type} :
            /\ LET savedTask == handleSaveEdit(tasks[i], f.title, f.type, f.targetText,
                                               f.progress, f.completed, now)
                   updatedTasks == saveTask(savedTask, tasks)
               IN  /\ tasksKey' = saveTasks(updatedTasks)
                   /\ tasks' = updatedTasks
            /\ last' = [op |-> "edit", stale |-> FALSE]
            /\ UNCHANGED <<now, lastResetKey, nextId, taskVars, eventVars, ioVars>>

(* TaskModal.handleDelete -> HomeScreen.handleTaskDelete *)
HandleTaskDelete ==
    \E i \in DOMAIN tasks :
        /\ LET updatedTasks == deleteTask(tasks[i].id, tasks)
           IN  /\ tasksKey' = saveTasks(updatedTasks)
               /\ tasks' = updatedTasks
        /\ last' = [op |-> "delete", stale |-> FALSE]
        /\ UNCHANGED <<now, lastResetKey, nextId, taskVars, eventVars, ioVars>>

Next ==
    \/ NextDay
    \/ LoadTasksData
    \/ HandleTaskComplete
    \/ HandleTaskSaveNew
    \/ HandleTaskSaveEdit
    \/ HandleTaskDelete

Spec == Init /\ [][Next]_vars

(* ================== SpecTask: one task's transitions =================== *)
AppFrozen == AppInit

TaskInit ==
    /\ now = 0
    /\ \E type \in Types, targetValue \in TargetInputs :
          task = createTask(1, "a", type, targetValue, 0)
    /\ prev = task
    /\ lastOp = [op |-> "create", at |-> 0, arg |-> 0]
    /\ prevOp = NoOp
    /\ AppFrozen
    /\ IOFrozen
    /\ EventFrozen

(* remember the task and the operation before the one now applied *)
Record(op, arg) ==
    /\ prev' = task
    /\ lastOp' = [op |-> op, at |-> now, arg |-> arg]
    /\ prevOp' = lastOp
    /\ UNCHANGED <<now, appVars, ioVars, eventVars>>

TTick ==
    /\ now < MaxNow
    /\ now' = now + 1
    /\ UNCHANGED <<appVars, taskVars, eventVars, ioVars>>

TCreate ==
    \E type \in Types, targetValue \in TargetInputs :
        /\ task' = createTask(1, "a", type, targetValue, now)
        /\ Record("create", 0)

TComplete ==
    /\ task' = completeTask(task, now)
    /\ Record("complete", 0)

TRelapse ==
    /\ task' = relapseCleanTask(task, now)
    /\ Record("relapse", 0)

TUpdateProgress ==
    \E newValue \in ProgressInputs \cup {OrElse(task.targetValue, 1) + 1000} :
        /\ task' = updateTaskProgress(task, newValue, now)
        /\ Record("update", newValue)

(* the reset pass (checkAndResetTasks with a marker that is not today: the *)
(* first load of the day, or the marker lost or cleared) reaches the task  *)
TRollover ==
    /\ task.streak < MaxStreak
    /\ task' = resetPass(<<task>>, now)[1]
    /\ Record("rollover", 0)

TaskNext ==
    \/ TTick
    \/ TCreate
    \/ TComplete
    \/ TRelapse
    \/ TUpdateProgress
    \/ TRollover

SpecTask == TaskInit /\ [][TaskNext]_vars

(* ========= SpecEdit: one task edited through the TaskModal form ========= *)
(* components/TaskModal.tsx handleSave, `if (task)` branch.  The form is   *)
(* prefilled from the task and every field can be changed before Save.     *)
(* targetText: parseInt of the target field, Undefined for NaN (the field  *)
(* is not empty for a unit task); currentText: parseInt of the progress    *)
(* field, Undefined when the field is empty (as it is prefilled for a task *)
(* that has no currentValue).                                              *)
handleSave(tk, title, type, targetText, currentText, t) ==
    LET savedTask ==
            [tk EXCEPT !.title = title, !.type = type,
                       !.targetValue =
                           IF type = "unit" THEN OrElse(targetText, 1) ELSE Undefined,
                       !.updatedAt = t]
    IN  IF type = "unit" /\ currentText # Undefined
        THEN updateTaskProgress(savedTask, OrElse(currentText, 0), t)
        ELSE savedTask

(* handleSave, `else` branch: a task created from the form *)
EditInit ==
    /\ now = 0
    /\ \E type \in Types, targetText \in FormTargets :
          task = createTask(1, "a", type,
                            IF type = "unit" THEN OrElse(targetText, 1) ELSE Undefined,
                            0)
    /\ prev = task
    /\ lastOp = [op |-> "create", at |-> 0, arg |-> 0]
    /\ prevOp = NoOp
    /\ AppFrozen
    /\ IOFrozen
    /\ EventFrozen

(* only the name of the operation last applied is remembered *)
Applied(op) ==
    /\ lastOp' = [op |-> op, at |-> 0, arg |-> 0]
    /\ UNCHANGED <<now, prev, prevOp, appVars, ioVars, eventVars>>

EditSave ==
    \E type \in Types, targetText \in FormTargets,
       currentText \in FormProgress \cup {Undefined} :
        /\ task' = handleSave(task, "a", type, targetText, currentText, now)
        /\ Applied("edit")

EditComplete ==
    /\ task' = completeTask(task, now)
    /\ Applied("complete")

EditUpdateProgress ==
    \E newValue \in ProgressInputs :
        /\ task' = updateTaskProgress(task, newValue, now)
        /\ Applied("update")

EditRollover ==
    /\ task.streak < MaxStreak
    /\ task' = resetPass(<<task>>, now)[1]
    /\ Applied("rollover")

EditNext ==
    \/ TTick
    \/ EditSave
    \/ EditComplete
    \/ EditUpdateProgress
    \/ EditRollover

SpecEdit == EditInit /\ [][EditNext]_vars

(* ============ SpecStore: the store under failing AsyncStorage =========== *)
(* Which AsyncStorage call of a store function rejects, if it is reached. *)
Faults == {"none", "getTasks", "getMarker", "setMarker", "setTasks"}
WriteFaults == {"none", "setTasks"}
ClearFaults == {"none", "removeTasks", "removeMarker"}
StoreTypes == {"daily"}

(* saveTasks: a rejected setItem is logged and rethrown, the key as it was *)
saveTasksIO(ts, tkey, bad, fault) ==
    IF fault = "setTasks"
    THEN [tkey |-> tkey, bad |-> bad, threw |-> TRUE]
    ELSE [tkey |-> saveTasks(ts), bad |-> FALSE, threw |-> FALSE]

(* the try block of checkAndResetTasks: the marker is written before the   *)
(* collection                                                              *)
checkAndResetTasksTry(ts, tkey, marker, t, fault) ==
    IF fault = "getMarker"
    THEN [ret |-> ts, marker |-> marker, tkey |-> tkey, threw |-> TRUE]
    ELSE IF marker # <<DayOf(t)>>
         THEN LET resetTasks == resetPass(ts, t)
              IN  IF fault = "setMarker"
                  THEN [ret |-> ts, marker |-> marker, tkey |-> tkey, threw |-> TRUE]
                  ELSE IF Len(resetTasks) > 0
                       THEN LET w == saveTasksIO(resetTasks, tkey, FALSE, fault)
                            IN  [ret |-> resetTasks, marker |-> <<DayOf(t)>>,
                                 tkey |-> w.tkey, threw |-> w.threw]
                       ELSE [ret |-> resetTasks, marker |-> <<DayOf(t)>>,
                             tkey |-> tkey, threw |-> FALSE]
         ELSE [ret |-> ts, marker |-> marker, tkey |-> tkey, threw |-> FALSE]

(* checkAndResetTasks passing its failure on to the caller *)
checkAndResetTasksIO_rethrows(ts, tkey, marker, t, fault) ==
    checkAndResetTasksTry(ts, tkey, marker, t, fault)

(* checkAndResetTasks: its catch returns the tasks it was given *)
checkAndResetTasksIO(ts, tkey, marker, t, fault) ==
    LET r == checkAndResetTasksTry(ts, tkey, marker, t, fault)
    IN  IF r.threw THEN [r EXCEPT !.ret = ts, !.threw = FALSE] ELSE r

(* the try block of loadTasks: getItem rejects, or JSON.parse throws on a  *)
(* text that is not JSON (bad)                                             *)
loadTasksTry(tkey, bad, marker, t, fault) ==
    IF fault = "getTasks" \/ (tkey # <<>> /\ bad)
    THEN [ret |-> <<>>, marker |-> marker, tkey |-> tkey, threw |-> TRUE]
    ELSE IF tkey = <<>>
         THEN [ret |-> <<>>, marker |-> marker, tkey |-> tkey, threw |-> FALSE]
         ELSE checkAndResetTasksIO(JSON_parse(tkey[1]), tkey, marker, t, fault)

(* loadTasks: its catch returns [] *)
loadTasksIO(tkey, bad, marker, t, fault) ==
    LET r == loadTasksTry(tkey, bad, marker, t, fault)
    IN  IF r.threw THEN [r EXCEPT !.ret = <<>>, !.threw = FALSE] ELSE r

(* saveTask hiding a rejected write from its caller *)
saveTaskIO_swallows(tk, existingTasks, tkey, bad, fault) ==
    LET updatedTasks == saveTask(tk, existingTasks)
        w == saveTasksIO(updatedTasks, tkey, bad, fault)
    IN  [ret |-> updatedTasks, tkey |-> w.tkey, bad |-> w.bad, threw |-> FALSE]

(* saveTask: updatedTasks, saveTasks, return; its catch rethrows *)
saveTaskIO(tk, existingTasks, tkey, bad, fault) ==
    LET updatedTasks == saveTask(tk, existingTasks)
        w == saveTasksIO(updatedTasks, tkey, bad, fault)
    IN  [ret |-> updatedTasks, tkey |-> w.tkey, bad |-> w.bad, threw |-> w.threw]

(* deleteTask returning the list it was given *)
deleteTaskIO_returnsGiven(taskId, existingTasks, tkey, bad, fault) ==
    LET updatedTasks == deleteTask(taskId, existingTasks)
        w == saveTasksIO(updatedTasks, tkey, bad, fault)
    IN  [ret |-> existingTasks, tkey |-> w.tkey, bad |-> w.bad, threw |-> w.threw]

(* deleteTask: filter, saveTasks, return; its catch rethrows *)
deleteTaskIO(taskId, existingTasks, tkey, bad, fault) ==
    LET updatedTasks == deleteTask(taskId, existingTasks)
        w == saveTasksIO(updatedTasks, tkey, bad, fault)
    IN  [ret |-> updatedTasks, tkey |-> w.tkey, bad |-> w.bad, threw |-> w.threw]

(* clearAllTasks with the reset marker left in place *)
clearAllTasksIO_keepsMarker(tkey, bad, marker, fault) ==
    IF fault = "removeTasks"
    THEN [tkey |-> tkey, bad |-> bad, marker |-> marker, threw |-> TRUE]
    ELSE [tkey |-> <<>>, bad |-> FALSE, marker |-> marker, threw |-> fault = "removeMarker"]

(* clearAllTasks: removeItem(TASKS_KEY), removeItem(LAST_RESET_KEY); its   *)
(* catch rethrows, with what was removed before staying removed            *)
clearAllTasksIO(tkey, bad, marker, fault) ==
    IF fault = "removeTasks"
    THEN [tkey |-> tkey, bad |-> bad, marker |-> marker, threw |-> TRUE]
    ELSE IF fault = "removeMarker"
         THEN [tkey |-> <<>>, bad |-> FALSE, marker |-> marker, threw |-> TRUE]
         ELSE [tkey |-> <<>>, bad |-> FALSE, marker |-> <<>>, threw |-> FALSE]

StoreInit == now = 0 /\ AppInit /\ TaskFrozen /\ IOFrozen /\ EventFrozen

(* the id generateId gives a new task: one no task of the list has *)
NewId(ts, n) == CHOOSE id \in 1..n :
                 /\ \A i \in DOMAIN ts : ts[i].id # id
                 /\ \A other \in 1..(id - 1) : \E i \in DOMAIN ts : ts[i].id = other

(* the call just made: which of its AsyncStorage calls was set to reject,   *)
(* the task or the id it was given, whether it threw                       *)
Remember(op, fault, argTask, argId, r) ==
    hist' = [op |-> op, fault |-> fault, argTask |-> argTask, argId |-> argId,
             threw |-> r.threw]

StoreNextDay ==
    /\ Today < MaxDay
    /\ now' = now + TicksPerDay
    /\ UNCHANGED <<appVars, taskVars, eventVars, ioVars>>

(* the text under TASKS_KEY is damaged outside the app *)
StoreGarble ==
    /\ tasksKey # <<>>
    /\ ~garbled
    /\ garbled' = TRUE
    /\ hist' = [op |-> "garble", fault |-> "none", argTask |-> NoTask, argId |-> 0,
                threw |-> FALSE]
    /\ UNCHANGED <<now, appVars, taskVars, eventVars, calls>>

(* HomeScreen.loadTasksData: setTasks(await loadTasks()) *)
StoreLoad ==
    \E fault \in Faults :
        LET r == loadTasksIO(tasksKey, garbled, lastResetKey, now, fault)
        IN  /\ tasksKey' = r.tkey
            /\ lastResetKey' = r.marker
            /\ tasks' = IF r.threw THEN tasks ELSE r.ret
            /\ Remember("load", fault, NoTask, 0, r)
            /\ UNCHANGED <<now, nextId, last, taskVars, eventVars, garbled, calls>>

(* a HomeScreen handler: setTasks(await saveTask/deleteTask(.., tasks)),   *)
(* its catch alerts and leaves the list                                    *)
Mutate(op, fault, argTask, argId, r) ==
    /\ tasksKey' = r.tkey
    /\ garbled' = r.bad
    /\ tasks' = IF r.threw THEN tasks ELSE r.ret
    /\ Remember(op, fault, argTask, argId, r)
    /\ UNCHANGED <<now, lastResetKey, nextId, last, taskVars, eventVars, calls>>

StoreSaveNew ==
    \E type \in StoreTypes, fault \in WriteFaults :
        /\ Len(tasks) < MaxTasks
        /\ LET tk == createTask(NewId(tasks, MaxTasks), "a", type, Undefined, now)
           IN  Mutate("save", fault, tk, tk.id,
                      saveTaskIO(tk, tasks, tasksKey, garbled, fault))

StoreComplete ==
    \E i \in DOMAIN tasks, fault \in WriteFaults :
        /\ ~isTaskCompleted(tasks[i])
        /\ LET tk == completeTask(tasks[i], now)
           IN  Mutate("save", fault, tk, tk.id,
                      saveTaskIO(tk, tasks, tasksKey, garbled, fault))

StoreDelete ==
    \E taskId \in 1..MaxTasks, fault \in WriteFaults :
        Mutate("delete", fault, NoTask, taskId,
               deleteTaskIO(taskId, tasks, tasksKey, garbled, fault))

(* clearAllTasks, which no screen calls: the list of HomeScreen stays *)
StoreClear ==
    \E fault \in ClearFaults :
        LET r == clearAllTasksIO(tasksKey, garbled, lastResetKey, fault)
        IN  /\ tasksKey' = r.tkey
            /\ garbled' = r.bad
            /\ lastResetKey' = r.marker
            /\ hist' = [op |-> "clear", fault |-> fault, argTask |-> NoTask,
                        argId |-> 0, threw |-> r.threw]
            /\ UNCHANGED <<now, tasks, nextId, last, taskVars, eventVars, calls>>

StoreNext ==
    \/ StoreNextDay
    \/ StoreGarble
    \/ StoreLoad
    \/ StoreSaveNew
    \/ StoreComplete
    \/ StoreDelete
    \/ StoreClear

SpecStore == StoreInit /\ [][StoreNext]_vars

(* ============ SpecEvents: the calendar events provider ================== *)
(* utilities/EventContext.tsx.  An event is its id and its date; the other *)
(* fields are carried untouched.  loadEvents runs once per mount of        *)
(* EventProvider and is suspended at its getItem; addEvent, updateEvent    *)
(* and deleteEvent run one at a time once it has ended.                    *)
Dates == {1, 2}
LoadFaults == {"none", "getItem", "parse"}
SaveFaults == {"none", "setItem"}

eventReducer(st, action) ==
    CASE action.type = "SET_LOADING" -> [st EXCEPT !.loading = action.payload]
      [] action.type = "SET_ERROR" -> [st EXCEPT !.error = action.payload]
      [] action.type = "LOAD_EVENTS" ->
            [st EXCEPT !.events = action.payload, !.loading = FALSE]
      [] action.type = "ADD_EVENT" ->
            [st EXCEPT !.events = Append(st.events, action.payload)]
      [] action.type = "UPDATE_EVENT" ->
            [st EXCEPT !.events =
                [i \in DOMAIN st.events |->
                    IF st.events[i].id = action.payload.id THEN action.payload
                    ELSE st.events[i]]]
      [] action.type = "DELETE_EVENT" ->
            [st EXCEPT !.events =
                SelectSeq(st.events, LAMBDA e : e.id # action.payload)]
      [] OTHER -> st

(* the catch of loadEvents *)
loadEventsCatch(st) ==
    eventReducer(st, [type |-> "SET_ERROR", payload |-> "Failed to load events"])

EventsInit ==
    /\ now = 0
    /\ AppInit
    /\ TaskFrozen
    /\ IOFrozen
    /\ state = initialState
    /\ eventsKey = <<>>
    /\ eventCall = "mount"

EventsFrame == UNCHANGED <<now, appVars, taskVars, ioVars>>

(* useEffect: loadEvents dispatches SET_LOADING and issues getItem *)
LoadEventsStart ==
    /\ eventCall = "mount"
    /\ state' = eventReducer(state, [type |-> "SET_LOADING", payload |-> TRUE])
    /\ eventCall' = "getItem"
    /\ UNCHANGED eventsKey
    /\ EventsFrame

(* getItem settles: LOAD_EVENTS with the parsed text or with [], or the     *)
(* catch when getItem rejects or JSON.parse throws                          *)
LoadEventsSettle ==
    \E fault \in LoadFaults :
        /\ eventCall = "getItem"
        /\ fault = "parse" => eventsKey # <<>>
        /\ state' =
              IF fault # "none" THEN loadEventsCatch(state)
              ELSE eventReducer(state,
                       [type |-> "LOAD_EVENTS",
                        payload |-> IF eventsKey # <<>> THEN eventsKey[1] ELSE <<>>])
        /\ eventCall' = "idle"
        /\ UNCHANGED eventsKey
        /\ EventsFrame

(* a handler of the provider: saveEvents(updatedEvents), then the dispatch; *)
(* a rejected setItem leaves the key and dispatches SET_ERROR               *)
Persist(updatedEvents, action, message, fault) ==
    /\ eventCall = "idle"
    /\ IF fault = "setItem"
       THEN /\ state' = eventReducer(state, [type |-> "SET_ERROR", payload |-> message])
            /\ UNCHANGED eventsKey
       ELSE /\ eventsKey' = <<updatedEvents>>
            /\ state' = eventReducer(state, action)
    /\ UNCHANGED eventCall
    /\ EventsFrame

AddEvent ==
    \E date \in Dates, fault \in SaveFaults :
        /\ Len(state.events) < MaxEvents
        /\ LET newEvent == [id |-> NewId(state.events, MaxEvents), date |-> date]
           IN  Persist(Append(state.events, newEvent),
                       [type |-> "ADD_EVENT", payload |-> newEvent],
                       "Failed to add event", fault)

UpdateEvent ==
    \E i \in DOMAIN state.events, date \in Dates, fault \in SaveFaults :
        LET updatedEvent == [state.events[i] EXCEPT !.date = date]
        IN  Persist([j \in DOMAIN state.events |->
                        IF state.events[j].id = updatedEvent.id THEN updatedEvent
                        ELSE state.events[j]],
                    [type |-> "UPDATE_EVENT", payload |-> updatedEvent],
                    "Failed to update event", fault)

DeleteEvent ==
    \E id \in 1..MaxEvents, fault \in SaveFaults :
        Persist(SelectSeq(state.events, LAMBDA e : e.id # id),
                [type |-> "DELETE_EVENT", payload |-> id],
                "Failed to delete event", fault)

(* the app is closed and opened again: a new provider, the key as it was *)
Remount ==
    /\ eventCall = "idle"
    /\ state' = initialState
    /\ eventCall' = "mount"
    /\ UNCHANGED eventsKey
    /\ EventsFrame

EventsNext ==
    \/ LoadEventsStart
    \/ LoadEventsSettle
    \/ AddEvent
    \/ UpdateEvent
    \/ DeleteEvent
    \/ Remount

SpecEvents == EventsInit /\ [][EventsNext]_vars

(* ========= SpecList: saveTask and deleteTask on longer lists =========== *)
(* The caller's list and the stored one, up to MaxItems tasks, within one  *)
(* day and with every AsyncStorage call succeeding.                        *)
ListInit == StoreInit

ListSaveNew ==
    \E type \in StoreTypes :
        /\ Len(tasks) < MaxItems
        /\ LET tk == createTask(NewId(tasks, MaxItems), "a", type, Undefined, now)
           IN  Mutate("save", "none", tk, tk.id,
                      saveTaskIO(tk, tasks, tasksKey, garbled, "none"))

ListSaveExisting ==
    \E i \in DOMAIN tasks :
        /\ ~isTaskCompleted(tasks[i])
        /\ LET tk == completeTask(tasks[i], now)
           IN  Mutate("save", "none", tk, tk.id,
                      saveTaskIO(tk, tasks, tasksKey, garbled, "none"))

ListDelete ==
    \E taskId \in 1..MaxItems :
        Mutate("delete", "none", NoTask, taskId,
               deleteTaskIO(taskId, tasks, tasksKey, garbled, "none"))

ListNext ==
    \/ ListSaveNew
    \/ ListSaveExisting
    \/ ListDelete

SpecList == ListInit /\ [][ListNext]_vars

(* ============ SpecLoads: loadTasks calls that overlap =================== *)
(* HomeScreen runs loadTasksData on mount and on every pull-to-refresh; a  *)
(* call is suspended at each await (getItem, getItem, setItem, setItem)    *)
(* and another call can run in between.  The clock is held while a call is *)
(* in flight, and the list is edited only between calls.                   *)
Procs == {1, 2}
Idle == [pc |-> "idle", ts |-> <<>>, today |-> 0, out |-> <<>>, todo |-> <<>>]
AllIdle == \A p \in Procs : calls[p].pc = "idle"

(* the writes checkAndResetTasks makes, in its order, once it has found    *)
(* the marker is not today: the collection before the marker               *)
checkAndResetTasksWrites_tasksFirst(resetTasks) ==
    IF Len(resetTasks) > 0 THEN <<"setTasks", "setMarker">> ELSE <<"setMarker">>

(* the writes checkAndResetTasks makes, in its order, once it has found    *)
(* the marker is not today: the marker, then the collection if not empty   *)
checkAndResetTasksWrites(resetTasks) ==
    IF Len(resetTasks) > 0 THEN <<"setMarker", "setTasks">> ELSE <<"setMarker">>

LoadsInit ==
    /\ now = 0
    /\ tasksKey = <<>>
    /\ lastResetKey = <<>>
    /\ tasks = <<>>
    /\ nextId = 1
    /\ last = [op |-> "init", stale |-> FALSE, orig |-> <<>>, overlap |-> FALSE,
               writes |-> 0, crash |-> FALSE]
    /\ TaskFrozen
    /\ EventFrozen
    /\ garbled = FALSE
    /\ calls = [p \in Procs |-> Idle]
    /\ hist = NoHist

LoadsNextDay ==
    /\ AllIdle
    /\ Today < MaxDay
    /\ now' = now + TicksPerDay
    /\ last' = [last EXCEPT !.op = "day", !.crash = FALSE]
    /\ UNCHANGED <<tasksKey, lastResetKey, tasks, nextId, taskVars, eventVars, ioVars>>

(* a handler of HomeScreen runs to its end between two loads *)
LoadsEdit ==
    /\ AllIdle
    /\ StoreSaveNew \/ StoreComplete \/ StoreDelete
    /\ hist'.fault = "none"

(* loadTasksData is called: loadTasks issues getItem(TASKS_KEY) *)
LoadStart(p) ==
    /\ calls[p].pc = "idle"
    /\ calls' = [calls EXCEPT ![p] = [Idle EXCEPT !.pc = "getTasks"]]
    /\ last' = IF AllIdle
               THEN [op |-> "loads",
                     stale |-> tasksKey # <<>> /\ lastResetKey # <<Today>>,
                     orig |-> stored, overlap |-> FALSE, writes |-> 0,
                     crash |-> FALSE]
               ELSE [last EXCEPT !.overlap = TRUE]
    /\ UNCHANGED <<now, tasksKey, lastResetKey, tasks, nextId, taskVars, eventVars, garbled,
                   hist>>

(* a call returns: HomeScreen sets its list to the result *)
Return(p, result) ==
    /\ tasks' = result
    /\ calls' = [calls EXCEPT ![p] = Idle]

(* getItem(TASKS_KEY) resolves: null returns [], else parse, read the      *)
(* clock for `today` and issue getItem(LAST_RESET_KEY)                     *)
LoadGotTasks(p) ==
    /\ calls[p].pc = "getTasks"
    /\ IF tasksKey = <<>>
       THEN Return(p, <<>>)
       ELSE /\ calls' = [calls EXCEPT ![p] = [Idle EXCEPT !.pc = "getMarker",
                                                      !.ts = JSON_parse(tasksKey[1]),
                                                      !.today = Today]]
            /\ tasks' = tasks
    /\ UNCHANGED <<now, tasksKey, lastResetKey, nextId, last, taskVars, eventVars, garbled,
                   hist>>

(* getItem(LAST_RESET_KEY) resolves: on today's marker return the tasks as *)
(* read, else map the rollover over them and start writing                 *)
LoadGotMarker(p) ==
    /\ calls[p].pc = "getMarker"
    /\ IF lastResetKey # <<calls[p].today>>
       THEN LET resetTasks == resetPass(calls[p].ts, now)
                todo == checkAndResetTasksWrites(resetTasks)
            IN  /\ calls' = [calls EXCEPT ![p].pc = Head(todo),
                                          ![p].out = resetTasks,
                                          ![p].todo = Tail(todo)]
                /\ tasks' = tasks
       ELSE Return(p, calls[p].ts)
    /\ UNCHANGED <<now, tasksKey, lastResetKey, nextId, last, taskVars, eventVars, garbled,
                   hist>>

(* after a write: the next write, or return resetTasks *)
WriteDone(p) ==
    IF calls[p].todo = <<>>
    THEN Return(p, calls[p].out)
    ELSE /\ calls' = [calls EXCEPT ![p].pc = Head(calls[p].todo),
                                   ![p].todo = Tail(calls[p].todo)]
         /\ tasks' = tasks

(* setItem(LAST_RESET_KEY, today) resolves *)
LoadSetMarker(p) ==
    /\ calls[p].pc = "setMarker"
    /\ lastResetKey' = <<calls[p].today>>
    /\ WriteDone(p)
    /\ UNCHANGED <<now, tasksKey, nextId, last, taskVars, eventVars, garbled, hist>>

(* saveTasks(resetTasks): setItem(TASKS_KEY, ..) resolves *)
LoadSetTasks(p) ==
    /\ calls[p].pc = "setTasks"
    /\ tasksKey' = saveTasks(calls[p].out)
    /\ last' = [last EXCEPT !.writes = last.writes + 1]
    /\ WriteDone(p)
    /\ UNCHANGED <<now, lastResetKey, nextId, taskVars, eventVars, garbled, hist>>

LoadsNext ==
    \/ LoadsNextDay
    \/ LoadsEdit
    \/ \E p \in Procs : LoadStart(p)
    \/ \E p \in Procs : LoadGotTasks(p)
    \/ \E p \in Procs : LoadGotMarker(p)
    \/ \E p \in Procs : LoadSetMarker(p)
    \/ \E p \in Procs : LoadSetTasks(p)

SpecLoads == LoadsInit /\ [][LoadsNext]_vars

(* ======= SpecCrash: the app is killed while loadTasks is in flight ====== *)
(* The process dies: every call in flight is gone with the writes it had   *)
(* not made, the list is empty again, and HomeScreen mounts and loads.     *)
Crash ==
    /\ ~AllIdle
    /\ calls' = [p \in Procs |-> IF p = 1 THEN [Idle EXCEPT !.pc = "getTasks"]
                                 ELSE Idle]
    /\ tasks' = <<>>
    /\ last' = [last EXCEPT !.overlap = FALSE, !.writes = 0,
                   !.crash = \/ last.crash
                             \/ /\ last.stale
                                /\ \E p \in Procs : /\ calls[p].pc = "setTasks"
                                                    /\ calls[p].todo = <<>>]
    /\ UNCHANGED <<now, tasksKey, lastResetKey, nextId, taskVars, eventVars, garbled, hist>>

CrashNext == LoadsNext \/ Crash

SpecCrash == LoadsInit /\ [][CrashNext]_vars

(* ========= SpecMut: HomeScreen mutations that overlap =================== *)
(* A handler computes its updated list from the `tasks` of its closure,    *)
(* awaits the write, then calls setTasks; a second handler can start       *)
(* before the first has resolved.  One day, no failure, lists of up to     *)
(* MutItems tasks; between two moments with no call in flight each of the  *)
(* Procs calls is made once.                                               *)
NoReq == [op |-> "none", argTask |-> NoTask, argId |-> 0]
IdleMut == [pc |-> "idle", req |-> NoReq, out |-> <<>>]

(* a handler taking its list from the store *)
handlerSnapshot_fromStore(mem, tkey) ==
    IF tkey = <<>> THEN <<>> ELSE JSON_parse(tkey[1])

(* the existingTasks a handler passes: the list of its closure *)
handlerSnapshot(mem, tkey) == mem

(* what a request makes of a list *)
Effect(req, ts) ==
    IF req.op = "save" THEN saveTask(req.argTask, ts)
    ELSE IF req.op = "delete" THEN deleteTask(req.argId, ts)
    ELSE ts

(* `last` remembers, of the calls made since no call was in flight: the    *)
(* list when the first began (snap), how many began (n), how many wrote    *)
(* (w), the request that wrote before the latest (lost) and what the       *)
(* latest to write makes of snap (wins)                                    *)
MutInit ==
    /\ now = 0
    /\ tasksKey = <<>>
    /\ lastResetKey = <<>>
    /\ tasks = <<>>
    /\ nextId = 1
    /\ last = [op |-> "init", snap |-> <<>>, n |-> 0, w |-> 0, lost |-> NoReq,
               wins |-> <<>>]
    /\ TaskFrozen
    /\ EventFrozen
    /\ garbled = FALSE
    /\ calls = [p \in Procs |-> IdleMut]
    /\ hist = NoHist

(* saveTask / deleteTask up to its await: updatedTasks from the snapshot,  *)
(* setItem issued                                                          *)
Begin(p, req) ==
    LET existingTasks == handlerSnapshot(tasks, tasksKey)
    IN  /\ calls[p].pc = "idle"
        /\ AllIdle \/ last.n < Cardinality(Procs)
        /\ calls' = [calls EXCEPT ![p] = [pc |-> "setTasks", req |-> req,
                                          out |-> Effect(req, existingTasks)]]
        /\ last' = IF AllIdle
                   THEN [op |-> "muts", snap |-> tasks, n |-> 1, w |-> 0,
                         lost |-> NoReq, wins |-> <<>>]
                   ELSE [last EXCEPT !.n = last.n + 1]
        /\ UNCHANGED <<now, tasksKey, lastResetKey, tasks, nextId, taskVars, eventVars,
                       garbled, hist>>

MutSaveNew(p) ==
    \E type \in StoreTypes :
        /\ Len(tasks) < MutItems
        /\ LET tk == createTask(NewId(tasks, MutItems), "a", type, Undefined, now)
           IN  Begin(p, [op |-> "save", argTask |-> tk, argId |-> tk.id])

MutComplete(p) ==
    \E i \in DOMAIN tasks :
        /\ ~isTaskCompleted(tasks[i])
        /\ LET tk == completeTask(tasks[i], now)
           IN  Begin(p, [op |-> "save", argTask |-> tk, argId |-> tk.id])

MutDelete(p) ==
    \E i \in DOMAIN tasks :
        Begin(p, [op |-> "delete", argTask |-> NoTask, argId |-> tasks[i].id])

(* setItem(TASKS_KEY, ..) resolves *)
MutWrite(p) ==
    /\ calls[p].pc = "setTasks"
    /\ tasksKey' = saveTasks(calls[p].out)
    /\ calls' = [calls EXCEPT ![p].pc = "resolve"]
    /\ last' = [last EXCEPT !.w = last.w + 1,
                            !.lost = IF last.w = 0 THEN calls[p].req ELSE last.lost,
                            !.wins = Effect(calls[p].req, last.snap)]
    /\ UNCHANGED <<now, lastResetKey, tasks, nextId, taskVars, eventVars, garbled, hist>>

(* the handler resumes: setTasks(updatedTasks) *)
MutResolve(p) ==
    /\ calls[p].pc = "resolve"
    /\ tasks' = calls[p].out
    /\ calls' = [calls EXCEPT ![p] = IdleMut]
    /\ UNCHANGED <<now, tasksKey, lastResetKey, nextId, last, taskVars, eventVars, garbled,
                   hist>>

MutNext ==
    \/ \E p \in Procs : MutSaveNew(p)
    \/ \E p \in Procs : MutComplete(p)
    \/ \E p \in Procs : MutDelete(p)
    \/ \E p \in Procs : MutWrite(p)
    \/ \E p \in Procs : MutResolve(p)

SpecMut == MutInit /\ [][MutNext]_vars

(* ========= SpecPass: the reset pass over longer collections ============= *)
(* The app with up to MaxItems tasks of every type, each created on day 0  *)
(* and completed then or not, in the list and in the store; from there     *)
(* only the days pass and the list is loaded.                              *)
SeedTask(id, type, done) ==
    IF done THEN completeTask(createTask(id, "a", type, Undefined, 0), 0)
    ELSE createTask(id, "a", type, Undefined, 0)

PassInit ==
    /\ now = 0
    /\ \E n \in 0..MaxItems :
          \E type \in [1..n -> Types], done \in [1..n -> BOOLEAN] :
              LET seed == [i \in 1..n |-> SeedTask(i, type[i], done[i])]
              IN  /\ tasks = seed
                  /\ tasksKey = IF n = 0 THEN <<>> ELSE saveTasks(seed)
    /\ lastResetKey = <<>>
    /\ nextId = 1
    /\ last = [op |-> "init", stale |-> FALSE]
    /\ TaskFrozen
    /\ EventFrozen
    /\ IOFrozen

PassNext ==
    \/ NextDay
    \/ LoadTasksData

SpecPass == PassInit /\ [][PassNext]_vars

(* ============================== claims ================================= *)

(* C1: a task whose last-activity date (the day of updatedAt) is today is  *)
(* returned field-for-field unchanged by the rollover the reset pass       *)
(* applies to it (shouldResetTask gating resetTaskForNewDay).              *)
C1_SameDayTaskUntouchedByPass ==
    [][LoadTasksData =>
          \A i \in DOMAIN stored :
              DayOf(stored[i].updatedAt) = Today => tasks'[i] = stored[i]]_vars

(* C2: a second reset pass on the same calendar day leaves the task's      *)
(* completed flag, currentValue and streak as the first pass left them.    *)
C2_SecondPassSameDayChangesNothing ==
    (/\ lastOp.op = "rollover"
     /\ prevOp.op = "rollover"
     /\ DayOf(prevOp.at) = DayOf(lastOp.at))
    => /\ task.completed = prev.completed
       /\ task.currentValue = prev.currentValue
       /\ task.streak = prev.streak

(* C3: a Stale load applies the rollover to every stored task whose last   *)
(* activity was on an earlier day, never-completed tasks included.         *)
C3_StaleLoadRollsEveryEarlierTask ==
    [][(LoadTasksData /\ tasksKey # <<>> /\ lastResetKey # <<Today>>) =>
          \A i \in DOMAIN stored :
              DayOf(stored[i].updatedAt) < Today =>
                  tasks'[i] = resetTaskForNewDay(stored[i], now)]_vars

(* C4: within one day the reset pass is applied once: a load of a present  *)
(* collection leaves the marker at today, and a load that finds the marker *)
(* at today returns the stored collection and writes nothing.              *)
C4_FreshLoadIsReadOnly ==
    [][LoadTasksData =>
          /\ tasksKey # <<>> => lastResetKey' = <<Today>>
          /\ lastResetKey = <<Today>> =>
                /\ tasks' = stored
                /\ tasksKey' = tasksKey
                /\ lastResetKey' = lastResetKey]_vars

(* a Fresh load has returned a collection holding a task completed on an   *)
(* earlier day, which a second pass would have rolled again                *)
C4_Witness ==
    /\ last.op = "load"
    /\ ~last.stale
    /\ lastResetKey = <<Today>>
    /\ tasks = stored
    /\ \E i \in DOMAIN tasks : shouldResetTask(tasks[i], now)

(* the task before the last operation was rolled by it: the pass found     *)
(* shouldResetTask true and applied resetTaskForNewDay                     *)
Rolled == lastOp.op = "rollover" /\ shouldResetTask(prev, lastOp.at)

(* C5: rolling a daily task: completed with streak N gives streak N+1 and  *)
(* completed=false; not completed with streak N > 0 gives streak 0 and     *)
(* completed=false.                                                        *)
C5_DailyRollover ==
    (Rolled /\ prev.type = "daily") =>
        /\ prev.completed => (task.streak = prev.streak + 1 /\ ~task.completed)
        /\ (~prev.completed /\ prev.streak > 0) =>
               (task.streak = 0 /\ ~task.completed)

(* a daily task completed the day before, with a streak already, has been  *)
(* rolled                                                                  *)
C5_Witness ==
    /\ Rolled
    /\ prev.type = "daily"
    /\ prev.completed
    /\ prev.streak > 0
    /\ DayOf(prev.lastCompletedDate) + 1 = DayOf(lastOp.at)
    /\ task.streak = prev.streak + 1

(* C6: a clean task with no relapse on day D and last activity on day D,   *)
(* rolled on day D+1, has its streak incremented by exactly 1 and          *)
(* completed=false.                                                        *)
C6_CleanDayIncrements ==
    (/\ Rolled
     /\ prev.type = "clean"
     /\ DayOf(prev.updatedAt) + 1 = DayOf(lastOp.at)
     /\ prev.relapsedDate # DayOf(prev.updatedAt))
    => (task.streak = prev.streak + 1 /\ ~task.completed)

C6_Witness ==
    /\ Rolled
    /\ prev.type = "clean"
    /\ DayOf(prev.updatedAt) + 1 = DayOf(lastOp.at)
    /\ prev.relapsedDate # DayOf(prev.updatedAt)
    /\ prev.streak > 0
    /\ task.streak = prev.streak + 1

(* C7: a clean task relapsed on day D (relapsedDate = D), when the reset   *)
(* pass reaches it on day D+1, ends with streak 0 and completed=false.     *)
C7_RelapseDayGivesNoIncrement ==
    (/\ lastOp.op = "rollover"
     /\ prev.type = "clean"
     /\ prev.relapsedDate # Undefined
     /\ prev.relapsedDate + 1 = DayOf(lastOp.at))
    => (task.streak = 0 /\ ~task.completed)

(* C8: relapseCleanTask on a clean task sets streak=0, completed=true and  *)
(* relapsedDate=today; applied again the same day it leaves streak=0 and   *)
(* relapsedDate unchanged; a unit or daily task is returned unchanged.     *)
C8_Relapse ==
    lastOp.op = "relapse" =>
        /\ prev.type = "clean" =>
              /\ task.streak = 0
              /\ task.completed
              /\ task.relapsedDate = DayOf(lastOp.at)
        /\ (prev.type = "clean" /\ prev.relapsedDate = DayOf(lastOp.at)) =>
              (task.streak = 0 /\ task.relapsedDate = prev.relapsedDate)
        /\ prev.type # "clean" => task = prev

(* a second relapse of the same day, later in the day, on a clean task     *)
C8_Witness ==
    /\ lastOp.op = "relapse"
    /\ prevOp.op = "relapse"
    /\ prev.type = "clean"
    /\ prev.relapsedDate = DayOf(lastOp.at)
    /\ prevOp.at < lastOp.at
    /\ task.relapsedDate = prev.relapsedDate

(* C9: the relapse action wired in the UI (the swipe labelled "Relapsed",  *)
(* the "Mark as Relapsed" checkbox) zeroes a clean task's streak, and the  *)
(* next rollover does not increment the streak for the relapse day.        *)
C9_UIRelapseZeroesAndSpendsDay ==
    [][/\ (HandleTaskComplete \/ HandleTaskSaveEdit) =>
             \A i \in DOMAIN tasks :
                 (/\ tasks[i].type = "clean"
                  /\ ~tasks[i].completed
                  /\ tasks'[i].completed) => tasks'[i].streak = 0
       /\ LoadTasksData =>
             \A i \in DOMAIN stored :
                 (/\ stored[i].type = "clean"
                  /\ stored[i].completed
                  /\ DayOf(stored[i].updatedAt) + 1 = Today)
                 => tasks'[i].streak = 0]_vars

(* C10: updateTaskProgress on a unit task that createTask produced leaves  *)
(* currentValue in [0, targetValue], and newValue = targetValue + 1000     *)
(* gives currentValue = targetValue.                                       *)
C10_ProgressClamped ==
    (lastOp.op = "update" /\ prev.type = "unit")
    => /\ 0 <= task.currentValue
       /\ task.currentValue <= prev.targetValue
       /\ lastOp.arg = prev.targetValue + 1000
              => task.currentValue = prev.targetValue

(* C11 as stated: rolling a unit task resets currentValue to 0 and         *)
(* completed to false and leaves its streak untouched.                     *)
C11_UnitRolloverLeavesStreak ==
    (Rolled /\ prev.type = "unit") =>
        /\ task.currentValue = 0
        /\ ~task.completed
        /\ task.streak = prev.streak

(* C11 as amended: rolling a unit task resets currentValue to 0 and        *)
(* completed to false; its streak becomes streak + 1 when the task was     *)
(* completed (flag set or currentValue >= targetValue) and 0 otherwise.    *)
C11_UnitRollover ==
    (Rolled /\ prev.type = "unit") =>
        /\ task.currentValue = 0
        /\ ~task.completed
        /\ task.streak = IF prev.completed \/ prev.currentValue >= prev.targetValue
                         THEN prev.streak + 1 ELSE 0

(* a unit task that had reached its target, with a streak already, has     *)
(* been rolled                                                             *)
C11_Witness ==
    /\ Rolled
    /\ prev.type = "unit"
    /\ prev.targetValue > 1
    /\ prev.currentValue = prev.targetValue
    /\ prev.streak > 0
    /\ task.currentValue = 0
    /\ task.streak = prev.streak + 1

(* C12: completeTask sets completed=true and the two timestamps (and       *)
(* currentValue=targetValue on a unit task) and nothing else, so a second  *)
(* completion of the day changes timestamps only; a streak increases in a  *)
(* rollover and in no other operation.                                     *)
C12_CompleteKeepsStreak ==
    /\ lastOp.op = "complete" =>
          task = [prev EXCEPT !.completed = TRUE,
                              !.lastCompletedDate = lastOp.at,
                              !.updatedAt = lastOp.at,
                              !.currentValue = IF prev.type = "unit"
                                               THEN prev.targetValue
                                               ELSE prev.currentValue]
    /\ (/\ lastOp.op = "complete"
        /\ prevOp.op = "complete"
        /\ DayOf(prevOp.at) = DayOf(lastOp.at)) =>
          task = [prev EXCEPT !.lastCompletedDate = lastOp.at,
                              !.updatedAt = lastOp.at]
    /\ task.streak > prev.streak => lastOp.op = "rollover"

(* a task with a streak has been completed a second time, later the same   *)
(* day                                                                     *)
C12_Witness ==
    /\ lastOp.op = "complete"
    /\ prevOp.op = "complete"
    /\ DayOf(prevOp.at) = DayOf(lastOp.at)
    /\ prevOp.at < lastOp.at
    /\ prev.type = "daily"
    /\ prev.streak > 0
    /\ task.streak = prev.streak
    /\ task.updatedAt # prev.updatedAt

(* C13: a daily task completed on day D and not touched on day D+1 has     *)
(* streak 0 after the load that rolls it on day D+2 or later.              *)
C13_MissedDayResetsStreak ==
    [][LoadTasksData =>
          \A i \in DOMAIN stored :
              (/\ stored[i].type = "daily"
               /\ stored[i].lastCompletedDate # Undefined
               /\ DayOf(stored[i].updatedAt) = DayOf(stored[i].lastCompletedDate)
               /\ DayOf(stored[i].lastCompletedDate) + 1 < Today)
              => tasks'[i].streak = 0]_vars

(* the load just made reached a read that failed: getItem(TASKS_KEY)       *)
(* rejected, the stored text was not JSON, or getItem(LAST_RESET_KEY)      *)
(* rejected                                                                *)
TasksReadFailed == hist'.fault = "getTasks" \/ (tasksKey # <<>> /\ garbled)
MarkerReadFailed ==
    hist'.fault = "getMarker" /\ tasksKey # <<>> /\ ~garbled

(* C17 as stated: loadTasks never throws; with the key absent it returns   *)
(* []; on any read failure or malformed stored data it returns [] and      *)
(* leaves the stored collection and the marker as they were.               *)
C17_ReadFailureReturnsEmpty ==
    [][StoreLoad =>
          /\ ~hist'.threw
          /\ tasksKey = <<>> => tasks' = <<>>
          /\ (TasksReadFailed \/ MarkerReadFailed) =>
                /\ tasks' = <<>>
                /\ tasksKey' = tasksKey
                /\ garbled' = garbled
                /\ lastResetKey' = lastResetKey]_vars

(* C17 as amended: loadTasks never throws; with the key absent, on a       *)
(* failed read of the task key or a stored text that is not JSON it        *)
(* returns [] and writes nothing; on a failed read of the reset marker it  *)
(* returns the stored collection as parsed, not reset, and writes nothing. *)
C17_LoadNeverThrows ==
    [][StoreLoad =>
          /\ ~hist'.threw
          /\ (tasksKey = <<>> \/ TasksReadFailed) =>
                /\ tasks' = <<>>
                /\ tasksKey' = tasksKey
                /\ garbled' = garbled
                /\ lastResetKey' = lastResetKey
          /\ MarkerReadFailed =>
                /\ tasks' = stored
                /\ tasksKey' = tasksKey
                /\ garbled' = garbled
                /\ lastResetKey' = lastResetKey]_vars

(* a load on a new day whose marker read failed has returned the stored    *)
(* tasks, a completed one among them, without resetting them               *)
C17_Witness ==
    /\ hist.op = "load"
    /\ hist.fault = "getMarker"
    /\ ~hist.threw
    /\ ~garbled
    /\ lastResetKey # <<Today>>
    /\ tasks = stored
    /\ \E i \in DOMAIN tasks :
          tasks[i].completed /\ shouldResetTask(tasks[i], now)

(* C18: when the write of saveTask or deleteTask fails the error reaches   *)
(* the caller, the stored collection stays as it was, and HomeScreen keeps *)
(* its previous list.                                                      *)
C18_WriteFailurePropagates ==
    [][((StoreSaveNew \/ StoreComplete \/ StoreDelete) /\ hist'.fault = "setTasks") =>
          /\ hist'.threw
          /\ tasksKey' = tasksKey
          /\ garbled' = garbled
          /\ lastResetKey' = lastResetKey
          /\ tasks' = tasks]_vars

(* the completion of a listed task has failed to persist: the task is      *)
(* still not completed in the list and in the store                        *)
C18_Witness ==
    /\ hist.op = "save"
    /\ hist.fault = "setTasks"
    /\ hist.threw
    /\ hist.argTask.completed
    /\ stored = tasks
    /\ \E i \in DOMAIN tasks : tasks[i].id = hist.argId /\ ~tasks[i].completed

(* C19: saveTask(task, existing) puts the task in the place of the element *)
(* with its id when there is one (same length) and at the end otherwise;   *)
(* every other element keeps its value and its place; the result is what   *)
(* is persisted.                                                           *)
C19_SaveReplacesOrAppends ==
    [][(ListSaveNew \/ ListSaveExisting) =>
          LET tk == hist'.argTask
          IN  /\ IF \E i \in DOMAIN tasks : tasks[i].id = tk.id
                 THEN /\ Len(tasks') = Len(tasks)
                      /\ \A i \in DOMAIN tasks :
                            tasks'[i] = IF tasks[i].id = tk.id THEN tk ELSE tasks[i]
                 ELSE /\ Len(tasks') = Len(tasks) + 1
                      /\ tasks'[Len(tasks')] = tk
                      /\ \A i \in DOMAIN tasks : tasks'[i] = tasks[i]
              /\ stored' = tasks']_vars

(* the middle task of three has been replaced by its completed version *)
C19_Witness ==
    /\ hist.op = "save"
    /\ Len(tasks) = 3
    /\ tasks[2] = hist.argTask
    /\ tasks[2].completed
    /\ ~tasks[3].completed

(* C20: deleteTask(id, existing) returns and persists the elements of      *)
(* existing whose id differs, in their order; with the id absent the       *)
(* collection is unchanged.                                                *)
C20_DeleteFilters ==
    [][ListDelete =>
          LET kept == {i \in DOMAIN tasks : tasks[i].id # hist'.argId}
          IN  /\ Len(tasks') = Cardinality(kept)
              /\ \A k \in kept :
                    tasks'[Cardinality({i \in kept : i <= k})] = tasks[k]
              /\ kept = DOMAIN tasks => tasks' = tasks
              /\ stored' = tasks']_vars

(* task 2 has been deleted from between tasks 1 and 3 *)
C20_Witness ==
    /\ hist.op = "delete"
    /\ hist.argId = 2
    /\ Len(tasks) = 2
    /\ tasks[1].id = 1
    /\ tasks[2].id = 3

(* the step in which the last load in flight returns *)
LoadsFinish == ~AllIdle /\ AllIdle'

(* C14: when two loadTasks calls overlap on a day whose marker is not yet  *)
(* today's, then whatever the interleaving, once both have returned the    *)
(* stored collection is one reset pass over the collection stored before   *)
(* them and the marker is today.                                           *)
C14_OverlappingLoadsResetOnce ==
    [][(LoadsFinish /\ last'.op = "loads" /\ last'.stale /\ last'.overlap) =>
          /\ stored' = resetPass(last'.orig, now)
          /\ lastResetKey' = <<Today>>]_vars

(* two overlapping loads have both written their reset collection, and    *)
(* the pass changed a stored task                                          *)
C14_Witness ==
    /\ AllIdle
    /\ last.op = "loads"
    /\ last.stale
    /\ last.overlap
    /\ last.writes = 2
    /\ last.orig # <<>>
    /\ stored # last.orig
    /\ stored = resetPass(last.orig, now)

(* C15: after the app was killed between the two writes of a reset pass,   *)
(* the next loadTasks on the same day ends with the stored collection and  *)
(* the marker an uninterrupted pass would have left.                       *)
C15_CrashBetweenWritesRecovers ==
    [][(LoadsFinish /\ last'.op = "loads" /\ last'.stale /\ last'.crash) =>
          /\ stored' = resetPass(last'.orig, now)
          /\ lastResetKey' = <<Today>>]_vars

(* C16: when two mutations are in flight, each computed from the same      *)
(* in-memory list, the collection stored once both have finished is the    *)
(* one written by whichever wrote last: that mutation applied to the       *)
(* common list, without the effect of the other.                           *)
C16_LastWriteWins ==
    [][(LoadsFinish /\ last'.op = "muts" /\ last'.n = Cardinality(Procs)) =>
          stored' = last'.wins]_vars

(* two overlapping mutations have finished and the one that wrote first    *)
(* is not in the stored collection: applying it would still change it      *)
C16_Witness ==
    /\ AllIdle
    /\ last.op = "muts"
    /\ last.n = Cardinality(Procs)
    /\ last.w = Cardinality(Procs)
    /\ stored = last.wins
    /\ Effect(last.lost, last.snap) # last.snap
    /\ Effect(last.lost, stored) # stored

(* C21: once clearAllTasks has completed both keys are absent, and the     *)
(* loadTasks that follows it returns [], whichever of its calls fails.     *)
C21_ClearErasesBoth ==
    [][/\ (StoreClear /\ ~hist'.threw) =>
             /\ tasksKey' = <<>>
             /\ lastResetKey' = <<>>
       /\ (StoreLoad /\ hist.op = "clear" /\ ~hist.threw) => tasks' = <<>>]_vars

(* clearAllTasks has completed on a store that held a task with a streak,  *)
(* so that a reset pass had written the marker                             *)
C21_Witness ==
    /\ hist.op = "clear"
    /\ ~hist.threw
    /\ tasksKey = <<>>
    /\ lastResetKey = <<>>
    /\ \E i \in DOMAIN tasks : tasks[i].streak > 0

(* C22: the collection a load that runs the reset pass returns and         *)
(* persists has the length of the stored one and, place by place, the id,  *)
(* title, type and createdAt of its tasks.                                 *)
C22_PassKeepsTasksAndOrder ==
    [][(LoadTasksData /\ last'.stale) =>
          /\ Len(tasks') = Len(stored)
          /\ stored' = tasks'
          /\ \A i \in DOMAIN stored :
                /\ tasks'[i].id = stored[i].id
                /\ tasks'[i].title = stored[i].title
                /\ tasks'[i].type = stored[i].type
                /\ tasks'[i].createdAt = stored[i].createdAt]_vars

(* the pass has run over three tasks of three types, the first completed   *)
(* the day before and the second not                                       *)
C22_Witness ==
    /\ last.op = "load"
    /\ last.stale
    /\ Len(tasks) = 3
    /\ {tasks[i].type : i \in 1..3} = Types
    /\ tasks[1].streak = 1
    /\ tasks[1].updatedAt = now
    /\ tasks[2].lastCompletedDate = Undefined
    /\ \A i \in 1..3 : tasks[i].id = i
    /\ now > 0

(* C23: a task fresh from createTask is not completed, has streak 0 and   *)
(* equal createdAt and updatedAt; a unit task starts at currentValue 0     *)
(* with a targetValue of at least 1, whatever target was given; a daily or *)
(* clean task has neither targetValue nor currentValue.                    *)
C23_CreateDefaults ==
    lastOp.op = "create" =>
        /\ task.completed = FALSE
        /\ task.streak = 0
        /\ task.createdAt = task.updatedAt
        /\ task.type = "unit" =>
              /\ task.currentValue = 0
              /\ task.targetValue >= 1
        /\ task.type # "unit" =>
              /\ task.targetValue = Undefined
              /\ task.currentValue = Undefined

(* C24: through creation, completions, relapses, progress updates and      *)
(* rollovers the streak of a task is a natural number.                     *)
C24_StreakIsNatural == task.streak \in Nat

(* a streak of two earned over two rollovers has been lost to a missed day *)
C24_Witness ==
    /\ lastOp.op = "rollover"
    /\ prev.streak >= 2
    /\ task.streak = 0

(* C25: in every reachable state a task has a currentValue exactly when   *)
(* it is a unit task, and a unit task's currentValue lies between 0 and    *)
(* its targetValue, also after an edit that changes the type or lowers the *)
(* target.                                                                 *)
C25_ProgressWithinTarget ==
    /\ (task.currentValue # Undefined) <=> (task.type = "unit")
    /\ task.type = "unit" =>
          /\ 0 <= task.currentValue
          /\ task.currentValue <= task.targetValue

(* C26: with the store functions called one at a time, none of their      *)
(* AsyncStorage calls rejecting and the stored text readable, the          *)
(* collection loadTasks, saveTask or deleteTask returns is the collection  *)
(* under the task key when the call completes (an absent key holding the   *)
(* empty collection).                                                      *)
C26_ReturnedIsPersisted ==
    [][(/\ \/ StoreLoad /\ ~garbled
           \/ StoreSaveNew
           \/ StoreComplete
           \/ StoreDelete
        /\ hist'.fault = "none") => tasks' = stored']_vars

(* a load has run the reset pass and returned what it wrote *)
C26_Witness ==
    /\ hist.op = "load"
    /\ hist.fault = "none"
    /\ ~garbled
    /\ lastResetKey = <<Today>>
    /\ Len(tasks) = 1
    /\ tasks[1].streak = 1
    /\ ~tasks[1].completed
    /\ tasks = stored

(* C28: a load that finds the marker stale and whose write of the reset    *)
(* collection is rejected does not leave the marker at today over a stored *)
(* collection that still needs the reset.                                  *)
C28_FailedResetNotLost ==
    [][(/\ StoreLoad
        /\ hist'.fault = "setTasks"
        /\ ~garbled
        /\ lastResetKey # <<Today>>
        /\ resetPass(stored, now) # stored)
       => ~(lastResetKey' = <<Today>> /\ stored' = stored)]_vars

(* A task is told from every other by its id and creation time: the id    *)
(* createTask gives is Date.now() followed by random digits.               *)
Persisted == {<<stored[i].id, stored[i].createdAt>> : i \in DOMAIN stored}

(* C29: a task under the task key stays there through every store call but *)
(* a deleteTask given its id and clearAllTasks.                            *)
C29_PersistedUntilDeleted ==
    [][\A k \in Persisted :
          (~garbled /\ k \notin Persisted') =>
              \/ hist'.op = "delete" /\ hist'.argId = k[1]
              \/ hist'.op = "clear"]_vars

(* C27: when two loadTasks calls overlap on a day whose marker is not yet  *)
(* today's, every call returns the rolled-over collection, and once both   *)
(* have returned the list of HomeScreen is the stored collection.          *)
C27_OverlappingLoadsReturnReset ==
    [][(/\ last'.op = "loads" /\ last'.stale /\ last'.overlap
        /\ \E p \in Procs : calls[p].pc # "idle" /\ calls'[p].pc = "idle")
       => /\ tasks' = resetPass(last'.orig, now)
          /\ LoadsFinish => tasks' = stored']_vars

(* C30: every run of loadEvents leaves state.loading false: once the run  *)
(* has ended, on a successful read as on a failed one, the provider is not *)
(* loading.                                                                *)
C30_LoadEventsEndsLoading == eventCall = "idle" => ~state.loading

====
